---- MODULE Spec2Model ----
(***************************************************************************)
(* Model of the legal-document analysis endpoint of NIL_doc_parser.py:     *)
(* POST /analyze-legal-document (process_legal_document), the converter    *)
(* wrapper parse_document and the two-stage model protocol                 *)
(* analyze_document, with the response schemas of response_formats.py.     *)
(*                                                                         *)
(* Every request is a thread of the Flask server.  One action is one       *)
(* blocking call of the handler together with the local code that runs     *)
(* up to the next blocking call (or up to the response).  The only state   *)
(* the requests share is the file system.                                  *)
(***************************************************************************)
EXTENDS Naturals, Sequences, FiniteSets, TLC

\* Number of requests the server handles (concurrently or one after another).
NumReqs == 2
Reqs == 1..NumReqs

\* MAX_PAGES = 20, the page ceiling handed to the converter.
MAX_PAGES == 20

\* The validation threshold 0.8, in hundredths.
ConfidenceThreshold == 80

---------------------------------------------------------------------------
(* Python values.  None is a record of its own kind so that it compares    *)
(* with instances of the schema classes; Optional[str] is a sequence of    *)
(* length 0 (None) or 1 (a string).                                        *)

PyNone == [kind |-> "NoneType"]
Unset == [kind |-> "unset"]

\* LegalDocumentCheck: valid_document: bool, confidence_level: float (hundredths).
\* The instances the validation call may return: a valid document at each
\* confidence, and a document judged not valid with high confidence.
Confidences == {79, ConfidenceThreshold, 95}
LegalDocumentCheck ==
    [kind : {"LegalDocumentCheck"}, valid_document : {TRUE}, confidence_level : Confidences]
    \cup [kind : {"LegalDocumentCheck"}, valid_document : {FALSE}, confidence_level : {95}]

\* LegalParty: name, role, contact_info: Optional[str].
EmployerParty ==
    [name |-> "Acme Corp", role |-> "employer", contact_info |-> <<"legal@acme.example">>]
ContractorParty ==
    [name |-> "J. Doe", role |-> "contractor", contact_info |-> <<>>]
LegalParty == {EmployerParty, ContractorParty}

\* LegalSummaryData instances the extraction call may return: one with every
\* optional field filled, one with every optional field absent.
FullSummary ==
    [kind |-> "LegalSummaryData",
     document_type |-> "NDA",
     effective_date |-> "2024-01-01",
     expiration_date |-> <<"2025-01-01">>,
     parties |-> <<EmployerParty, ContractorParty>>,
     key_terms |-> <<"confidentiality">>,
     obligations |-> <<"keep information secret">>,
     governing_law |-> <<"New York">>]

SparseSummary ==
    [kind |-> "LegalSummaryData",
     document_type |-> "contract",
     effective_date |-> "2024-06-30",
     expiration_date |-> <<>>,
     parties |-> <<ContractorParty>>,
     key_terms |-> <<>>,
     obligations |-> <<"deliver work">>,
     governing_law |-> <<>>]

LegalSummaryData == {FullSummary, SparseSummary}

---------------------------------------------------------------------------
(* Uploads and the file system.                                            *)

\* Documents a client may upload: text, page count, and whether the
\* converter can read the format at all.
Docs ==
    { [text |-> "contract A", pages |-> 1, readable |-> TRUE],
      [text |-> "contract B", pages |-> MAX_PAGES, readable |-> TRUE],
      [text |-> "long contract", pages |-> MAX_PAGES + 1, readable |-> TRUE],
      [text |-> "", pages |-> 1, readable |-> FALSE] }

AnyDoc == CHOOSE d \in Docs : d.pages = 1 /\ d.readable

\* Filenames: two plain names, and one that names a directory that does
\* not exist (the client controls the name; it is used unsanitised).
PlainNames == {"a.pdf", "b.pdf"}
NoDirName == "nodir/c.pdf"

\* request.files of a request: no `file` part, a part with an empty
\* filename, or a part with a filename and content.  Every document is
\* uploaded as a.pdf, and one of them as b.pdf as well, so that requests
\* meet with the same name and different content, and with different
\* names and the same content.
Uploads ==
    { [present |-> FALSE, filename |-> "", content |-> AnyDoc],
      [present |-> TRUE, filename |-> "", content |-> AnyDoc],
      [present |-> TRUE, filename |-> NoDirName, content |-> AnyDoc],
      [present |-> TRUE, filename |-> "b.pdf", content |-> AnyDoc] }
    \cup [present : {TRUE}, filename : {"a.pdf"}, content : Docs]

\* temp_path = f"temp_{file.filename}"
TempPathShared(filename) == <<"temp_", "a.pdf">>
TempPath(filename) == <<"temp_", filename>>

Paths == { <<"temp_", f>> : f \in PlainNames }
Absent == [exists |-> FALSE]

\* file.save opens the path for writing, which fails when the directory
\* part of the name does not exist.
DirExists(filename) == filename \in PlainNames

VARIABLES
    pc,             \* pc[r]: the call request r is about to make, or "done"
    upload,         \* upload[r]: request.files of request r
    disk,           \* disk[p]: the file at path p, or Absent
    document,       \* document[r]: result of parse_document
    markdown_text,  \* markdown_text[r]: result of export_to_markdown
    messages,       \* messages[r]: the message list of analyze_document
    legal_doc_check,\* legal_doc_check[r]: parsed result of the first call
    summary_data,   \* summary_data[r]: parsed result of the second call
    resp,           \* resp[r]: the HTTP response, once produced
    ops,            \* ops[r]: the blocking calls r has issued, in order
    calls,          \* calls[r]: the message lists r has sent to the model
    raised          \* raised[r]: message of the exception r raised, if any

vars == <<pc, upload, disk, document, markdown_text, messages, legal_doc_check,
          summary_data, resp, ops, calls, raised>>

NoResp == [status |-> 0]
NoExc == <<>>

\* Requests are interchangeable (a request's number only labels it), so
\* the uploads are handed out in one fixed order of the request numbers:
\* every other assignment is a renumbering of one of these.
UploadRank(u) ==
    ((IF u.present THEN 1 ELSE 0) * 4
       + (CASE u.filename = "" -> 0
            [] u.filename = NoDirName -> 1
            [] u.filename = "a.pdf" -> 2
            [] u.filename = "b.pdf" -> 3)) * 100
    + u.content.pages * 2 + (IF u.content.readable THEN 1 ELSE 0)

Init ==
    /\ pc = [r \in Reqs |-> "validate"]
    /\ upload \in [Reqs -> Uploads]
    /\ \A r, q \in Reqs : r < q => UploadRank(upload[r]) <= UploadRank(upload[q])
    /\ disk = [p \in Paths |-> Absent]
    /\ document = [r \in Reqs |-> Unset]
    /\ markdown_text = [r \in Reqs |-> ""]
    /\ messages = [r \in Reqs |-> <<>>]
    /\ legal_doc_check = [r \in Reqs |-> Unset]
    /\ summary_data = [r \in Reqs |-> Unset]
    /\ resp = [r \in Reqs |-> NoResp]
    /\ ops = [r \in Reqs |-> <<>>]
    /\ calls = [r \in Reqs |-> <<>>]
    /\ raised = [r \in Reqs |-> NoExc]

---------------------------------------------------------------------------
(* Helpers of the handler.                                                 *)

\* 'file' not in request.files
FilePartMissingNever(u) == FALSE
FilePartMissing(u) == ~u.present

\* file.filename == ''
FilenameEmptyNever(u) == FALSE
FilenameEmpty(u) == u.filename = ""

\* jsonify({'error': ...}), 400
BadRequest(msg) == [status |-> 400, body |-> [error |-> msg]]

\* except Exception as e: jsonify({'error': str(e)}), 500
ServerErrorAs400(msg) == [status |-> 400, body |-> [error |-> msg]]
ServerError(msg) == [status |-> 500, body |-> [error |-> msg]]

\* file.save(temp_path): creates the file or truncates and rewrites it.
\* creator is the request whose save created the file, writer the request
\* whose bytes it holds.
SaveFileNotWritten(d, p, content, r) == d
SaveFile(d, p, content, r) ==
    [d EXCEPT ![p] = [exists |-> TRUE, content |-> content,
                      creator |-> IF d[p].exists THEN d[p].creator ELSE r,
                      writer |-> r]]

\* os.remove(temp_path)
RemoveFileSkipped(d, p) == d
RemoveFile(d, p) == [d EXCEPT ![p] = Absent]

\* converter.convert(document_path, max_num_pages=MAX_PAGES) succeeds on a
\* readable document of at most MAX_PAGES pages.
Convertible(d) == d.readable /\ d.pages <= MAX_PAGES

\* document.export_to_markdown()
ExportToMarkdown(doc) == doc.text

\* The three initial turns of analyze_document.
InitialMessages(text) ==
    << [role |-> "system", content |-> "You are a helpful legal document interpreter."],
       [role |-> "developer",
        content |-> "A user will attach a document containing a legal contract. Analyze its content."],
       [role |-> "user", content |-> text] >>

\* The turn appended before the second call.
ExtractInstructionAsUser ==
    [role |-> "user",
     content |-> "Extract most important details from the user's document."]
ExtractInstruction ==
    [role |-> "developer",
     content |-> "Extract most important details from the user's document."]

\* not valid_document or confidence_level < 0.8
GateRejectsOnFlagOnly(c) == ~c.valid_document
GateRejectsAtThreshold(c) == ~c.valid_document \/ c.confidence_level <= ConfidenceThreshold
GateRejects(c) == ~c.valid_document \/ c.confidence_level < ConfidenceThreshold

\* Outcomes of client.beta.chat.completions.parse: the call raises, or the
\* message's parsed field is None (the model refused), or it is an instance
\* of the response format.
Stage1Outcomes ==
    { [kind |-> "raise"], [kind |-> "parsed", parsed |-> PyNone] }
    \cup { [kind |-> "parsed", parsed |-> c] : c \in LegalDocumentCheck }

Stage2Outcomes ==
    { [kind |-> "raise"], [kind |-> "parsed", parsed |-> PyNone] }
    \cup { [kind |-> "parsed", parsed |-> s] : s \in LegalSummaryData }

\* jsonify of the success payload.  The JSON encoder writes None as null;
\* for an object that is no JSON type it calls the application's default
\* hook, which knows dates, decimals, UUIDs, dataclasses and __html__
\* objects and raises TypeError for anything else, so for an instance of a
\* schema class.
JsonNull == [json |-> "null"]
Jsonify(payload) ==
    IF payload.summary.kind = "NoneType"
    THEN [ok |-> TRUE,
          json |-> [success |-> TRUE, document_name |-> payload.document_name,
                    summary |-> JsonNull]]
    ELSE [ok |-> FALSE,
          error |-> "Object of type LegalSummaryData is not JSON serializable"]

---------------------------------------------------------------------------
(* The handler, one action per blocking call.                              *)

\* The order of the handler's statements: the call that follows a call
\* that returned.
NextCallRemoveFirst(call) ==
    CASE call = "validate" -> "save"
      [] call = "save" -> "remove"
      [] call = "remove" -> "convert"
      [] call = "convert" -> "export"
      [] call = "export" -> "stage1"
      [] call = "stage1" -> "stage2"
NextCallSkipValidation(call) ==
    CASE call = "validate" -> "save"
      [] call = "save" -> "convert"
      [] call = "convert" -> "export"
      [] call = "export" -> "remove"
      [] call = "remove" -> "stage2"
      [] call = "stage1" -> "stage2"
NextCallNoCleanup(call) ==
    CASE call = "validate" -> "save"
      [] call = "save" -> "convert"
      [] call = "convert" -> "export"
      [] call = "export" -> "stage1"
      [] call = "remove" -> "stage1"
      [] call = "stage1" -> "stage2"
NextCallStuck(call) ==
    CASE call = "validate" -> "validate"
      [] call = "save" -> "convert"
      [] call = "convert" -> "export"
      [] call = "export" -> "remove"
      [] call = "remove" -> "stage1"
      [] call = "stage1" -> "stage2"
NextCall(call) ==
    CASE call = "validate" -> "save"
      [] call = "save" -> "convert"
      [] call = "convert" -> "export"
      [] call = "export" -> "remove"
      [] call = "remove" -> "stage1"
      [] call = "stage1" -> "stage2"

\* return <response>: the request is over.
Respond(r, response) ==
    /\ pc' = [pc EXCEPT ![r] = "done"]
    /\ resp' = [resp EXCEPT ![r] = response]

\* An exception reaches the handler's except clause.
Raise(r, msg) ==
    /\ Respond(r, ServerError(msg))
    /\ raised' = [raised EXCEPT ![r] = <<msg>>]

Issue(r, op) == ops' = [ops EXCEPT ![r] = Append(@, op)]

\* The two input checks and the computation of temp_path.
Validate(r) ==
    /\ pc[r] = "validate"
    /\ IF FilePartMissing(upload[r])
       THEN Respond(r, BadRequest("No file provided"))
       ELSE IF FilenameEmpty(upload[r])
       THEN Respond(r, BadRequest("No file selected"))
       ELSE pc' = [pc EXCEPT ![r] = NextCall("validate")] /\ UNCHANGED resp
    /\ UNCHANGED <<upload, disk, document, markdown_text, messages, legal_doc_check,
                   summary_data, ops, calls, raised>>

\* file.save(temp_path)
Save(r) ==
    /\ pc[r] = "save"
    /\ Issue(r, "save")
    /\ IF DirExists(upload[r].filename)
       THEN /\ disk' = SaveFile(disk, TempPath(upload[r].filename), upload[r].content, r)
            /\ pc' = [pc EXCEPT ![r] = NextCall("save")]
            /\ UNCHANGED <<resp, raised>>
       ELSE /\ Raise(r, "No such file or directory")
            /\ UNCHANGED disk
    /\ UNCHANGED <<upload, document, markdown_text, messages, legal_doc_check,
                   summary_data, calls>>

\* document = parse_document(temp_path)
Convert(r) ==
    /\ pc[r] = "convert"
    /\ Issue(r, "convert")
    /\ LET f == disk[TempPath(upload[r].filename)] IN
       IF ~f.exists
       THEN Raise(r, "No such file or directory") /\ UNCHANGED document
       ELSE IF ~Convertible(f.content)
       THEN Raise(r, "Conversion failed") /\ UNCHANGED document
       ELSE /\ document' = [document EXCEPT ![r] =
                               [kind |-> "DoclingDocument", text |-> f.content.text,
                                origin |-> f.writer]]
            /\ pc' = [pc EXCEPT ![r] = NextCall("convert")]
            /\ UNCHANGED <<resp, raised>>
    /\ UNCHANGED <<upload, disk, markdown_text, messages, legal_doc_check,
                   summary_data, calls>>

\* markdown_text = document.export_to_markdown()
Export(r) ==
    /\ pc[r] = "export"
    /\ Issue(r, "export")
    /\ \E ok \in BOOLEAN :
         IF ok
         THEN /\ markdown_text' = [markdown_text EXCEPT ![r] = ExportToMarkdown(document[r])]
              /\ pc' = [pc EXCEPT ![r] = NextCall("export")]
              /\ UNCHANGED <<resp, raised>>
         ELSE Raise(r, "Export failed") /\ UNCHANGED markdown_text
    /\ UNCHANGED <<upload, disk, document, messages, legal_doc_check,
                   summary_data, calls>>

\* os.remove(temp_path)
Remove(r) ==
    /\ pc[r] = "remove"
    /\ Issue(r, "remove")
    /\ LET p == TempPath(upload[r].filename) IN
       IF disk[p].exists
       THEN /\ disk' = RemoveFile(disk, p)
            /\ pc' = [pc EXCEPT ![r] = NextCall("remove")]
            /\ UNCHANGED <<resp, raised>>
       ELSE Raise(r, "No such file or directory") /\ UNCHANGED disk
    /\ UNCHANGED <<upload, document, markdown_text, messages, legal_doc_check,
                   summary_data, calls>>

\* analyze_document up to its second call: the message list, the first
\* call, the validation gate and the appended turn.
Stage1(r) ==
    /\ pc[r] = "stage1"
    /\ Issue(r, "stage1")
    /\ LET msgs == InitialMessages(markdown_text[r]) IN
       /\ calls' = [calls EXCEPT ![r] = Append(@, msgs)]
       /\ \E out \in Stage1Outcomes :
            IF out.kind = "raise"
            THEN /\ Raise(r, "Model call failed")
                 /\ messages' = [messages EXCEPT ![r] = msgs]
                 /\ UNCHANGED legal_doc_check
            ELSE /\ legal_doc_check' = [legal_doc_check EXCEPT ![r] = out.parsed]
                 /\ IF out.parsed.kind = "NoneType"
                    THEN /\ Raise(r, "'NoneType' object has no attribute 'valid_document'")
                         /\ messages' = [messages EXCEPT ![r] = msgs]
                    ELSE IF GateRejects(out.parsed)
                    THEN /\ Raise(r, "Failed to identify as a legal document")
                         /\ messages' = [messages EXCEPT ![r] = msgs]
                    ELSE /\ messages' = [messages EXCEPT ![r] = Append(msgs, ExtractInstruction)]
                         /\ pc' = [pc EXCEPT ![r] = NextCall("stage1")]
                         /\ UNCHANGED <<resp, raised>>
    /\ UNCHANGED <<upload, disk, document, markdown_text, summary_data>>

\* The second call of analyze_document, its return, and the success
\* response of the handler.
Stage2(r) ==
    /\ pc[r] = "stage2"
    /\ Issue(r, "stage2")
    /\ calls' = [calls EXCEPT ![r] = Append(@, messages[r])]
    /\ \E out \in Stage2Outcomes :
         IF out.kind = "raise"
         THEN Raise(r, "Model call failed") /\ UNCHANGED summary_data
         ELSE /\ summary_data' = [summary_data EXCEPT ![r] = out.parsed]
              /\ LET j == Jsonify([success |-> TRUE,
                                   document_name |-> upload[r].filename,
                                   summary |-> out.parsed]) IN
                 IF j.ok
                 THEN Respond(r, [status |-> 200, body |-> j.json]) /\ UNCHANGED raised
                 ELSE Raise(r, j.error)
    /\ UNCHANGED <<upload, disk, document, markdown_text, messages, legal_doc_check>>

\* The next step of the thread that handles request r.
Step(r) ==
    \/ Validate(r)
    \/ Save(r)
    \/ Convert(r)
    \/ Export(r)
    \/ Remove(r)
    \/ Stage1(r)
    \/ Stage2(r)

Next == \E r \in Reqs : Step(r)

Spec == Init /\ [][Next]_vars

\* Every handler thread keeps running and every blocking call returns or
\* raises: a request that can take a step eventually takes one.
FairSpec == Spec /\ \A r \in Reqs : WF_vars(Step(r))

---------------------------------------------------------------------------
(* Vocabulary of the properties.                                           *)

Done(r) == pc[r] = "done"
Issued(r, op) == \E i \in 1..Len(ops[r]) : ops[r][i] = op
LastOp(r) == IF ops[r] = <<>> THEN "none" ELSE ops[r][Len(ops[r])]
AllOps == <<"save", "convert", "export", "remove", "stage1", "stage2">>

\* A file that request r created or wrote is on disk.
HoldsFileOf(r) ==
    \E p \in Paths : disk[p].exists /\ (disk[p].creator = r \/ disk[p].writer = r)

\* JSON text of a schema instance, field by field: an absent optional
\* field is null, a present one its string.
OptionalAsJson(o) == IF o = <<>> THEN JsonNull ELSE [json |-> "string", value |-> o[1]]
PartyAsJson(party) ==
    [name |-> party.name, role |-> party.role,
     contact_info |-> OptionalAsJson(party.contact_info)]
SummaryAsJson(s) ==
    [json |-> "object",
     document_type |-> s.document_type,
     effective_date |-> s.effective_date,
     expiration_date |-> OptionalAsJson(s.expiration_date),
     parties |-> [i \in 1..Len(s.parties) |-> PartyAsJson(s.parties[i])],
     key_terms |-> s.key_terms,
     obligations |-> s.obligations,
     governing_law |-> OptionalAsJson(s.governing_law)]

---------------------------------------------------------------------------
(* C1: a first-call result with valid_document false or confidence_level   *)
(* below 0.8 ends the request with HTTP 500 and the second call is never   *)
(* issued; the second call is only issued after a first-call result with   *)
(* valid_document true and confidence_level at least 0.8.                  *)
C1_GateBlocksExtraction ==
    \A r \in Reqs :
        /\ ( /\ legal_doc_check[r].kind = "LegalDocumentCheck"
             /\ (~legal_doc_check[r].valid_document
                   \/ legal_doc_check[r].confidence_level < ConfidenceThreshold) )
           => /\ Done(r)
              /\ resp[r].status = 500
              /\ ~Issued(r, "stage2")
              /\ Len(calls[r]) = 1
        /\ Issued(r, "stage2")
           => /\ legal_doc_check[r].kind = "LegalDocumentCheck"
              /\ legal_doc_check[r].valid_document
              /\ legal_doc_check[r].confidence_level >= ConfidenceThreshold

C1_Witness ==
    /\ \E r \in Reqs :
         /\ legal_doc_check[r].kind = "LegalDocumentCheck"
         /\ legal_doc_check[r].valid_document
         /\ legal_doc_check[r].confidence_level = 79
         /\ resp[r].status = 500
    /\ \E q \in Reqs :
         /\ Issued(q, "stage2")
         /\ legal_doc_check[q].confidence_level = ConfidenceThreshold

(* C2: when conversion, export and both model calls succeed, the response  *)
(* is HTTP 200 with success true, document_name the uploaded filename and  *)
(* summary the LegalSummaryData the second call returned.                  *)
C2_SuccessResponse ==
    \A r \in Reqs :
        (Done(r) /\ summary_data[r].kind = "LegalSummaryData")
        => /\ resp[r].status = 200
           /\ resp[r].body.success = TRUE
           /\ resp[r].body.document_name = upload[r].filename
           /\ resp[r].body.summary = SummaryAsJson(summary_data[r])

(* C3: a request without a file part gets exactly 400 with the error "No   *)
(* file provided", and it writes no temp file, calls no converter and      *)
(* issues no model call.                                                   *)
C3_NoFilePart ==
    \A r \in Reqs :
        ~upload[r].present
        => /\ pc[r] \in {"validate", "done"}
           /\ Done(r) => resp[r] = [status |-> 400, body |-> [error |-> "No file provided"]]
           /\ ops[r] = <<>>
           /\ calls[r] = <<>>
           /\ ~HoldsFileOf(r)

C3_Witness == \E r \in Reqs : ~upload[r].present /\ Done(r)

(* C4: a request whose file part has an empty filename gets 400 with the   *)
(* error "No file selected", and it writes no temp file, calls no          *)
(* converter and issues no model call.                                     *)
C4_EmptyFilename ==
    \A r \in Reqs :
        (upload[r].present /\ upload[r].filename = "")
        => /\ pc[r] \in {"validate", "done"}
           /\ Done(r) => resp[r] = [status |-> 400, body |-> [error |-> "No file selected"]]
           /\ ops[r] = <<>>
           /\ calls[r] = <<>>
           /\ ~HoldsFileOf(r)

C4_Witness == \E r \in Reqs : upload[r].present /\ upload[r].filename = "" /\ Done(r)

(* C5: every exception raised after the two input checks ends the request  *)
(* with HTTP 500 and the exception's message as the error; a finished      *)
(* request has status 200, 400 or 500, and the 400s are exactly the        *)
(* requests without a file part or with an empty filename.                 *)
C5_FailuresAre500 ==
    \A r \in Reqs :
        /\ raised[r] # NoExc
           => /\ Done(r)
              /\ upload[r].present /\ upload[r].filename # ""
              /\ ops[r] # <<>>
              /\ resp[r] = [status |-> 500, body |-> [error |-> raised[r][1]]]
        /\ Done(r)
           => /\ resp[r].status \in {200, 400, 500}
              /\ resp[r].status = 400 <=> (~upload[r].present \/ upload[r].filename = "")
              /\ resp[r].status = 200 => (raised[r] = NoExc /\ ops[r] = AllOps)
              /\ resp[r].status = 500 => raised[r] # NoExc
        /\ ~Done(r) => resp[r] = NoResp

C5_Witness ==
    \E r, q \in Reqs :
        /\ r # q
        /\ LastOp(r) = "remove" /\ resp[r].status = 500
        /\ raised[q] = <<"Failed to identify as a legal document">>
        /\ resp[q].status = 500

---------------------------------------------------------------------------
(* C6: when a request has answered 200, the temp file it created or wrote  *)
(* for its upload is no longer on disk: its own removal succeeded, and a   *)
(* file then found at the path is a later upload of another request.       *)
C6_TempFileGoneOnSuccess ==
    \A r \in Reqs :
        (Done(r) /\ resp[r].status = 200)
        => /\ Issued(r, "save") /\ Issued(r, "remove")
           /\ ~HoldsFileOf(r)

C6_Witness == \E r \in Reqs : Done(r) /\ resp[r].status = 200 /\ Issued(r, "save")

(* C7: the temp path depends on the filename only and nothing excludes a   *)
(* second request from it: the converter of one request can read the       *)
(* bytes another request uploaded, and whenever it does, that request      *)
(* uploaded under the same filename and has saved its upload.              *)
C7_SharedTempPath ==
    \A r \in Reqs :
        (document[r].kind = "DoclingDocument" /\ document[r].origin # r)
        => /\ upload[document[r].origin].present
           /\ upload[document[r].origin].filename = upload[r].filename
           /\ Issued(document[r].origin, "save")
           /\ document[r].text = upload[document[r].origin].content.text

C7_Witness ==
    \E r, q \in Reqs :
        /\ r # q
        /\ document[r].kind = "DoclingDocument"
        /\ document[r].origin = q
        /\ document[r].text # upload[r].content.text

(* C8: two requests that upload the same content under different          *)
(* filenames, with every external call succeeding, each end with a         *)
(* successful response that depends on the request's own upload and model  *)
(* results only, and neither touches the other's temp path, converter      *)
(* input or message history.                                               *)
C8_IndependentSuccess ==
    \A r, q \in Reqs :
        ( /\ r # q
          /\ upload[r].filename \in PlainNames /\ upload[q].filename \in PlainNames
          /\ upload[r].filename # upload[q].filename
          /\ upload[r].content = upload[q].content
          /\ Done(r) /\ Done(q)
          /\ summary_data[r].kind = "LegalSummaryData"
          /\ summary_data[q].kind = "LegalSummaryData" )
        => /\ document[r].origin = r /\ document[q].origin = q
           /\ messages[r][3].content = upload[r].content.text
           /\ resp[r].status = 200 /\ resp[q].status = 200
           /\ resp[r].body.document_name = upload[r].filename
           /\ resp[q].body.document_name = upload[q].filename
           /\ resp[r].body.summary = SummaryAsJson(summary_data[r])
           /\ resp[q].body.summary = SummaryAsJson(summary_data[q])

\* Reading the JSON text of a summary back into the schema.
OptionalFromJson(j) == IF j = JsonNull THEN <<>> ELSE <<j.value>>
PartyFromJson(j) ==
    [name |-> j.name, role |-> j.role, contact_info |-> OptionalFromJson(j.contact_info)]
SummaryFromJson(j) ==
    IF j = JsonNull
    THEN PyNone
    ELSE [kind |-> "LegalSummaryData",
          document_type |-> j.document_type,
          effective_date |-> j.effective_date,
          expiration_date |-> OptionalFromJson(j.expiration_date),
          parties |-> [i \in 1..Len(j.parties) |-> PartyFromJson(j.parties[i])],
          key_terms |-> j.key_terms,
          obligations |-> j.obligations,
          governing_law |-> OptionalFromJson(j.governing_law)]

(* C9: the summary of the response, read back from JSON, is the            *)
(* LegalSummaryData the second call returned, field by field.              *)
C9_SummaryRoundTrip ==
    \A r \in Reqs :
        (Done(r) /\ summary_data[r].kind = "LegalSummaryData")
        => /\ resp[r].status = 200
           /\ SummaryFromJson(resp[r].body.summary) = summary_data[r]

\* Request q has removed the file at its temp path.
Removed(q) == Issued(q, "remove") /\ ~(LastOp(q) = "remove" /\ raised[q] # NoExc)

(* C10, as stated: at the moment a request answers 500 because the        *)
(* converter rejected the document or the markdown export raised, its      *)
(* temp file is still on disk.                                             *)
C10_TempFileLeftOnFailure ==
    [][\A r \in Reqs :
         ( /\ ~Done(r) /\ pc'[r] = "done"
           /\ resp'[r].status = 500
           /\ \/ pc[r] = "convert" /\ raised'[r] = <<"Conversion failed">>
              \/ pc[r] = "export" )
         => disk'[TempPath(upload[r].filename)].exists]_vars

(* C10, amended: such a request has not removed the temp file, and the     *)
(* file is still on disk unless another request that uploaded under the    *)
(* same filename has removed it; a request removes the temp file only      *)
(* after its conversion and its export have succeeded.                     *)
C10_TempFileLeftUnlessRemovedByOther ==
    \A r \in Reqs :
        /\ (Done(r) /\ resp[r].status = 500 /\ LastOp(r) \in {"convert", "export"})
           => /\ ~Issued(r, "remove")
              /\ \/ disk[TempPath(upload[r].filename)].exists
                 \/ \E q \in Reqs :
                      q # r /\ upload[q].filename = upload[r].filename /\ Removed(q)
        /\ Issued(r, "remove")
           => /\ Len(ops[r]) >= 4
              /\ ops[r][1] = "save" /\ ops[r][2] = "convert"
              /\ ops[r][3] = "export" /\ ops[r][4] = "remove"
              /\ document[r].kind = "DoclingDocument"
              /\ markdown_text[r] = document[r].text

C10_Witness ==
    \E r \in Reqs :
        /\ Done(r) /\ resp[r].status = 500 /\ LastOp(r) = "convert"
        /\ upload[r].content.pages > MAX_PAGES
        /\ disk[TempPath(upload[r].filename)].exists
        /\ disk[TempPath(upload[r].filename)].writer = r

---------------------------------------------------------------------------
\* How often request r has issued the call op.
Count(r, op) == Len(SelectSeq(ops[r], LAMBDA x : x = op))

(* C11: a request issues each model call at most once and the first call   *)
(* before the second; a model call that raises ends the request with 500   *)
(* and no model call follows it.                                           *)
C11_NoRetry ==
    \A r \in Reqs :
        /\ Count(r, "stage1") <= 1 /\ Count(r, "stage2") <= 1
        /\ Len(calls[r]) = Count(r, "stage1") + Count(r, "stage2")
        /\ Issued(r, "stage2")
           => \E i, j \in 1..Len(ops[r]) :
                i < j /\ ops[r][i] = "stage1" /\ ops[r][j] = "stage2"
        /\ raised[r] = <<"Model call failed">>
           => /\ Done(r) /\ resp[r].status = 500
              /\ LastOp(r) \in {"stage1", "stage2"}
              /\ Len(calls[r]) = (IF LastOp(r) = "stage1" THEN 1 ELSE 2)

C11_Witness ==
    \E r, q \in Reqs :
        /\ r # q
        /\ raised[r] = <<"Model call failed">> /\ LastOp(r) = "stage1"
        /\ raised[q] = <<"Model call failed">> /\ LastOp(q) = "stage2"

(* C12: the messages of the second call are the messages of the first      *)
(* call (system turn, developer turn, user turn with the markdown text),   *)
(* unchanged and in order, followed by exactly one developer turn.         *)
C12_SecondCallExtendsFirst ==
    \A r \in Reqs :
        /\ Len(calls[r]) >= 1
           => /\ Len(calls[r][1]) = 3
              /\ calls[r][1][1].role = "system"
              /\ calls[r][1][2].role = "developer"
              /\ calls[r][1][3] = [role |-> "user", content |-> markdown_text[r]]
        /\ Len(calls[r]) >= 2
           => /\ Len(calls[r][2]) = 4
              /\ SubSeq(calls[r][2], 1, 3) = calls[r][1]
              /\ calls[r][2][4].role = "developer"
              /\ calls[r][2][4].content
                   = "Extract most important details from the user's document."

C12_Witness ==
    \E r \in Reqs : Len(calls[r]) = 2 /\ calls[r][2][3].content = "contract B"

(* C13: a first-call result with valid_document true and confidence_level  *)
(* exactly 0.8 passes the gate and the second call follows; the gate       *)
(* rejects only a result that is not valid or strictly below 0.8.          *)
C13_ThresholdInclusive ==
    \A r \in Reqs :
        /\ ( /\ legal_doc_check[r].kind = "LegalDocumentCheck"
             /\ legal_doc_check[r].valid_document
             /\ legal_doc_check[r].confidence_level = ConfidenceThreshold )
           => /\ raised[r] # <<"Failed to identify as a legal document">>
              /\ pc[r] = "stage2" \/ Issued(r, "stage2")
        /\ raised[r] = <<"Failed to identify as a legal document">>
           => \/ ~legal_doc_check[r].valid_document
              \/ legal_doc_check[r].confidence_level < ConfidenceThreshold

C13_Witness ==
    \E r \in Reqs :
        /\ legal_doc_check[r].kind = "LegalDocumentCheck"
        /\ legal_doc_check[r].valid_document
        /\ legal_doc_check[r].confidence_level = ConfidenceThreshold
        /\ Issued(r, "stage2")

\* A summary in which some optional field has no value.
HasAbsentOptional(s) ==
    \/ s.expiration_date = <<>>
    \/ s.governing_law = <<>>
    \/ \E i \in 1..Len(s.parties) : s.parties[i].contact_info = <<>>

(* C14: a second-call result with an optional field absent is no error:    *)
(* the request ends with 200 and the summary carries the absent fields as  *)
(* empty.                                                                  *)
C14_AbsentOptionalIsNoError ==
    \A r \in Reqs :
        ( /\ Done(r)
          /\ summary_data[r].kind = "LegalSummaryData"
          /\ HasAbsentOptional(summary_data[r]) )
        => /\ resp[r].status = 200
           /\ resp[r].body.summary.expiration_date
                = OptionalAsJson(summary_data[r].expiration_date)
           /\ resp[r].body.summary.governing_law
                = OptionalAsJson(summary_data[r].governing_law)

\* No other request uploads under the filename of request r.
AloneOnFilename(r) ==
    \A q \in Reqs : q # r => upload[q].filename # upload[r].filename

(* C15: a request issues its calls in the order save, convert, export,     *)
(* remove, first model call, second model call; when it is about to issue  *)
(* or has issued a model call, conversion and export have succeeded and    *)
(* no file it created or wrote is on disk; so a request that fails at the  *)
(* gate or in a model call, alone on its filename, leaves no temp file.    *)
C15_LinearOrder ==
    \A r \in Reqs :
        /\ Len(ops[r]) <= Len(AllOps)
        /\ ops[r] = SubSeq(AllOps, 1, Len(ops[r]))
        /\ (pc[r] \in {"stage1", "stage2"} \/ Issued(r, "stage1") \/ Issued(r, "stage2"))
           => /\ ~HoldsFileOf(r)
              /\ document[r].kind = "DoclingDocument"
              /\ markdown_text[r] = document[r].text
        /\ ( /\ Done(r) /\ resp[r].status = 500
             /\ LastOp(r) \in {"stage1", "stage2"}
             /\ AloneOnFilename(r) )
           => ~disk[TempPath(upload[r].filename)].exists

C15_Witness ==
    \E r \in Reqs :
        /\ Done(r) /\ resp[r].status = 500
        /\ raised[r] = <<"Failed to identify as a legal document">>
        /\ AloneOnFilename(r)
        /\ ~disk[TempPath(upload[r].filename)].exists

(* C16: with two requests on one filename, a request whose own document    *)
(* is convertible can end with 500 because its conversion or its removal   *)
(* finds the temp file missing; this happens only when another request     *)
(* that uploaded under the same filename has removed the file.             *)
C16_MissingFileOnlyByRace ==
    \A r \in Reqs :
        ( /\ raised[r] = <<"No such file or directory">>
          /\ LastOp(r) \in {"convert", "remove"} )
        => /\ Done(r) /\ resp[r].status = 500
           /\ \E q \in Reqs :
                /\ q # r
                /\ upload[q].present
                /\ upload[q].filename = upload[r].filename
                /\ Removed(q)

C16_Witness ==
    \E r \in Reqs :
        /\ Convertible(upload[r].content)
        /\ raised[r] = <<"No such file or directory">>
        /\ LastOp(r) = "convert"
        /\ resp[r].status = 500

(* C17: when every blocking call returns or raises, every request          *)
(* eventually ends with a response of status 200, 400 or 500, and it gets  *)
(* exactly one response: none before it ends, and the response never       *)
(* changes afterwards.                                                     *)
C17_Terminates ==
    /\ <>[](\A r \in Reqs : Done(r) /\ resp[r].status \in {200, 400, 500})
    /\ [][\A r \in Reqs : resp[r] # NoResp => resp'[r] = resp[r]]_vars
    /\ [](\A r \in Reqs : ~Done(r) => resp[r] = NoResp)

C17_Witness ==
    /\ \A r \in Reqs : Done(r) /\ resp[r].status \in {200, 400, 500}
    /\ \E r \in Reqs : resp[r].status = 200
    /\ \E r \in Reqs : resp[r].status = 400

====
